---- MODULE Spec2Model ----
(***************************************************************************)
(* A model of the TEI-to-record converter of grobid_parse.py: the paragraph *)
(* reconstructor, the reference table builder, the section assembler and   *)
(* the metadata extractors.                                                *)
(*                                                                         *)
(* Python strings are modelled as sequences of one-character strings, so   *)
(* that slicing, startswith/endswith, str.lower, str.strip and the regular *)
(* expression substitutions are computed character by character.           *)
(***************************************************************************)
EXTENDS Naturals, Integers, Sequences, FiniteSets, TLC

VARIABLES
    paragraph,          \* reconstruct_paragraph: the paragraph node walked
    reference_dict,     \* the reference table (reconstruct_paragraph's argument, parse_text's local)
    idx,                \* reconstruct_paragraph: number of children already walked
    paragraph_content,  \* reconstruct_paragraph: the accumulator
    switch,             \* reconstruct_paragraph: the pending-artifact flag
    para_result,        \* reconstruct_paragraph: the value returned, None before
    ppc,                \* reconstruct_paragraph: "start", "walk", "done"
    article,            \* the parsed document (the BeautifulSoup object)
    reference_list,     \* parse_references: the table being built
    ref_elems,          \* parse_references: references.find_all("biblstruct")
    ridx,               \* parse_references: number of entries already handled
    referencecount,     \* parse_text: len(reference_dict), -1 before
    rpc,                \* parse_references: "start", "loop", "return", "done"
    meta,               \* the values the metadata extractors returned, Unset before
    mpc,                \* _parse_xml's extractor calls: the next one, or "done"
    sections,           \* parse_text: the sections collected so far
    divs,               \* parse_text: the divisions looped over (abstract_text, then divs)
    didx,               \* parse_text: number of divisions already handled in the loop
    sidx,               \* parse_text: number of sections already concatenated
    article_text,       \* parse_text: the output string being concatenated
    record,             \* _parse_xml: what it returned (a dict or None)
    dpc,                \* parse_text within _parse_xml: the position in the code
    clock,              \* the wall clock the upload handler reads, in seconds
    static_folder,      \* STATIC_FOLDER: file name -> contents
    handler             \* the POST requests being handled: position, upload, locals

paraVars == <<paragraph, reference_dict, idx, paragraph_content, switch, para_result, ppc>>

refVars == <<article, reference_list, ref_elems, ridx, referencecount, rpc>>

metaVars == <<meta, mpc>>

docVars == <<sections, divs, didx, sidx, article_text, record, dpc>>

appVars == <<clock, static_folder, handler>>

vars == <<paraVars, refVars, metaVars, docVars, appVars>>

\* what the steps of reconstruct_paragraph leave alone
notPara == <<refVars, metaVars, docVars, appVars>>

\* what the steps of parse_references leave alone
notRef == <<paraVars, metaVars, docVars, appVars>>

\* what the extractor calls leave alone
notMeta == <<paraVars, reference_list, ref_elems, ridx, referencecount, rpc, docVars,
             appVars>>

\* what the steps of parse_text and _parse_xml leave alone
notDoc == <<paragraph, idx, paragraph_content, switch, para_result, ppc,
            reference_list, ref_elems, ridx, rpc, metaVars, appVars>>

(***************************************************************************)
(* Bounds of the model.                                                    *)
(***************************************************************************)
MaxChildren == 3

(***************************************************************************)
(* Python values.                                                          *)
(***************************************************************************)
\* None: a value that is no string (no string holds a multi-character element).
None == <<"<None>">>

\* Truthiness of an optional string: None and "" are falsy.
Truthy(v) == v # None /\ v # <<>>

UpperCase == <<"A","B","C","D","E","F","G","H","I","J","K","L","M","N","O","P","Q","R","S","T","U","V","W","X","Y","Z">>
LowerCase == <<"a","b","c","d","e","f","g","h","i","j","k","l","m","n","o","p","q","r","s","t","u","v","w","x","y","z">>
Letters == {UpperCase[i] : i \in 1..26} \cup {LowerCase[i] : i \in 1..26}

IsSpace(c) == c \in {" ", "\t", "\n", "\r"}

LowerChar(c) ==
    IF \E i \in 1..26 : UpperCase[i] = c
    THEN LowerCase[CHOOSE i \in 1..26 : UpperCase[i] = c]
    ELSE c

\* str.lower()
lower(s) == [i \in 1..Len(s) |-> LowerChar(s[i])]

\* s[i:] with i counted from 1 (the characters from position i on)
From(s, i) == IF i > Len(s) THEN <<>> ELSE SubSeq(s, i, Len(s))

\* str.startswith / str.endswith
startswith(s, p) == Len(p) <= Len(s) /\ SubSeq(s, 1, Len(p)) = p
endswith(s, p) == Len(p) <= Len(s) /\ SubSeq(s, Len(s) - Len(p) + 1, Len(s)) = p

\* x in s, for strings
Contains(s, x) == \E i \in 1..(Len(s) - Len(x) + 1) : SubSeq(s, i, i + Len(x) - 1) = x

RECURSIVE lstrip(_)
lstrip(s) == IF s # <<>> /\ IsSpace(Head(s)) THEN lstrip(Tail(s)) ELSE s

RECURSIVE rstrip(_)
rstrip(s) ==
    IF s # <<>> /\ IsSpace(s[Len(s)]) THEN rstrip(SubSeq(s, 1, Len(s) - 1)) ELSE s

\* str.strip()
strip(s) == rstrip(lstrip(s))

(***************************************************************************)
(* The regular expressions of reconstruct_paragraph, matched as Python's   *)
(* re module matches them: leftmost, alternatives in order, greedy with    *)
(* backtracking, case-insensitively (re.IGNORECASE).  A match operator     *)
(* returns the position after the match, or 0 when there is no match at i. *)
(***************************************************************************)
\* \s* from position i: the first position holding no whitespace
RECURSIVE SkipSpaces(_, _)
SkipSpaces(s, i) == IF i <= Len(s) /\ IsSpace(s[i]) THEN SkipSpaces(s, i + 1) ELSE i

\* [,]* from position i
RECURSIVE SkipCommas(_, _)
SkipCommas(s, i) == IF i <= Len(s) /\ s[i] = "," THEN SkipCommas(s, i + 1) ELSE i

\* [A-Za-z]* from position i
RECURSIVE SkipLetters(_, _)
SkipLetters(s, i) == IF i <= Len(s) /\ s[i] \in Letters THEN SkipLetters(s, i + 1) ELSE i

\* \(? or \)? or \.? from position i
SkipOptional(s, i, c) == IF i <= Len(s) /\ s[i] = c THEN i + 1 ELSE i

\* a literal word at position i, ignoring case
MatchLit(s, i, word) ==
    /\ i + Len(word) - 1 <= Len(s)
    /\ \A k \in 1..Len(word) : LowerChar(s[i + k - 1]) = word[k]

KwFigure == <<"f","i","g","u","r","e">>
KwFig == <<"f","i","g">>
KwTable == <<"t","a","b","l","e">>
KwSupplementary == <<"s","u","p","p","l","e","m","e","n","t","a","r","y">>

\* one alternative of the caption pattern: \s*\(?<word>\.?\s*  (dot only for "fig")
CaptionAlt(s, i, word, dot) ==
    LET b == SkipOptional(s, SkipSpaces(s, i), "(")
    IN  IF MatchLit(s, b, word)
        THEN LET c == b + Len(word)
             IN  SkipSpaces(s, IF dot THEN SkipOptional(s, c, ".") ELSE c)
        ELSE 0

\* r"\s*\(?[Ff]igure\s*|\s*\(?[Ff]ig\.?\s*|\s*\(?[Tt]able\s*" at position i
CaptionMatch(s, i) ==
    IF CaptionAlt(s, i, KwFigure, FALSE) # 0 THEN CaptionAlt(s, i, KwFigure, FALSE)
    ELSE IF CaptionAlt(s, i, KwFig, TRUE) # 0 THEN CaptionAlt(s, i, KwFig, TRUE)
    ELSE CaptionAlt(s, i, KwTable, FALSE)

\* re.sub(caption pattern, '', s): every match is removed, scanning from position i
RECURSIVE CaptionSub(_, _)
CaptionSub(s, i) ==
    IF i > Len(s) THEN <<>>
    ELSE IF CaptionMatch(s, i) # 0 THEN CaptionSub(s, CaptionMatch(s, i))
    ELSE <<s[i]>> \o CaptionSub(s, i + 1)

\* the common head of both Supplementary alternatives: \s*\(?\s*[,]*\s*
SuppHead(s, i) ==
    SkipSpaces(s, SkipCommas(s, SkipSpaces(s, SkipOptional(s, SkipSpaces(s, i), "("))))

\* the common tail, after the word: \s*\)?
SuppTail(s, j) == SkipOptional(s, SkipSpaces(s, j), ")")

\* first alternative: \s*\(?\s*[,]*\s*[Ss]upplementary\s*\)?
SuppAltA(s, i) ==
    LET p == SuppHead(s, i)
    IN  IF MatchLit(s, p, KwSupplementary) THEN SuppTail(s, p + Len(KwSupplementary)) ELSE 0

\* second alternative: \s*\(?\s*[,]*\s*[A-Za-z]+\s*[Ss]upplementary\s*\)?
\* [A-Za-z]+ is greedy and gives letters back one by one: the longest run of
\* k >= 1 letters after which \s*supplementary matches is taken.
SuppAltB(s, i) ==
    LET p == SuppHead(s, i)
        n == SkipLetters(s, p) - p
        ok(k) == MatchLit(s, SkipSpaces(s, p + k), KwSupplementary)
        ks == {k \in 1..n : ok(k)}
    IN  IF ks = {} THEN 0
        ELSE LET k == CHOOSE x \in ks : \A y \in ks : y <= x
             IN  SuppTail(s, SkipSpaces(s, p + k) + Len(KwSupplementary))

SuppMatch(s, i) == IF SuppAltA(s, i) # 0 THEN SuppAltA(s, i) ELSE SuppAltB(s, i)

\* re.sub(supplementary pattern, '', s), scanning from position i
RECURSIVE SuppSub(_, _)
SuppSub(s, i) ==
    IF i > Len(s) THEN <<>>
    ELSE IF SuppMatch(s, i) # 0 THEN SuppSub(s, SuppMatch(s, i))
    ELSE <<s[i]>> \o SuppSub(s, i + 1)

(***************************************************************************)
(* The parsed tree (BeautifulSoup).  A node is a Tag (name, attributes,    *)
(* contents) or a NavigableString (its text).  Two nodes are equal, as     *)
(* bs4's __eq__ has it, when their name, attributes and contents are.      *)
(***************************************************************************)
\* the attributes of a tag: its (name, value) pairs
NoAttrs == <<>>

Attr(a, v) == <<<<a, v>>>>

Attr2(a, v, b, w) == <<<<a, v>>, <<b, w>>>>

Tag(name, attrs, contents) ==
    [kind |-> "Tag", name |-> name, attrs |-> attrs, string |-> <<>>, contents |-> contents]

NavigableString(text) ==
    [kind |-> "NavigableString", name |-> "", attrs |-> NoAttrs, string |-> text,
     contents |-> <<>>]

\* the None a find() returns
NoNode == [kind |-> "None", name |-> "", attrs |-> NoAttrs, string |-> <<>>, contents |-> <<>>]

IsTag(e) == e.kind = "Tag"

IsNavigableString(e) == e.kind = "NavigableString"

\* element.get(attribute): None when the attribute is absent
Get(e, a) ==
    IF \E i \in 1..Len(e.attrs) : e.attrs[i][1] = a
    THEN e.attrs[CHOOSE i \in 1..Len(e.attrs) : e.attrs[i][1] = a][2]
    ELSE None

(***************************************************************************)
(* A Python dict: the (key, value) pairs in insertion order.               *)
(***************************************************************************)
EmptyDict == <<>>

DictHas(d, k) == \E i \in 1..Len(d) : d[i].key = k

DictGet(d, k) == d[CHOOSE i \in 1..Len(d) : d[i].key = k].value

\* d[k] = v: overwrites the value of a key already present, else appends
DictSet(d, k, v) ==
    IF DictHas(d, k)
    THEN [i \in 1..Len(d) |-> IF d[i].key = k THEN [key |-> k, value |-> v] ELSE d[i]]
    ELSE Append(d, [key |-> k, value |-> v])

(***************************************************************************)
(* reconstruct_paragraph                                                   *)
(***************************************************************************)
Bibr == <<"b","i","b","r">>
BibOpen == <<"[","b","i","b","_","r","e","f","]"," ">>
BibClose == <<" ","[","/","b","i","b","_","r","e","f","]">>
CloseToken == <<"[","/","b","i","b","_","r","e","f","]">>

\* the condition of the first branch: a citation marker, and a non-empty table
IsCitationBranch(element, refs) ==
    /\ IsTag(element)
    /\ Get(element, "type") = Bibr
    /\ Truthy(Get(element, "target"))
    /\ refs # EmptyDict

\* the condition of the second branch (reached when the first one is not taken)
IsMarkerBranch(element, refs) ==
    /\ ~IsCitationBranch(element, refs)
    /\ IsTag(element)
    /\ Truthy(Get(element, "type"))

\* the condition of the third branch
IsTextBranch(element, refs) ==
    /\ ~IsCitationBranch(element, refs)
    /\ ~IsMarkerBranch(element, refs)
    /\ IsNavigableString(element)

\* target_id = str(element.get('target')[1:])
TargetId(element) == Tail(Get(element, "target"))

\* reference_string = f"[bib_ref] {ref['title']}, {ref['author']} [/bib_ref]"
ReferenceString(ref) == BibOpen \o ref.title \o <<",", " ">> \o ref.author \o BibClose

\* CitationStep without the separating space
CitationStep_Fused(st, element, refs) ==
    IF ~DictHas(refs, TargetId(element))
    THEN st
    ELSE [content |-> st.content \o ReferenceString(DictGet(refs, TargetId(element))),
          switch |-> TRUE]

\* the first branch: the state (content, switch) after a citation marker
CitationStep(st, element, refs) ==
    IF ~DictHas(refs, TargetId(element))
    THEN st
    ELSE LET ref == DictGet(refs, TargetId(element))
             sep == IF endswith(st.content, CloseToken) THEN <<" ">> ELSE <<>>
         IN  [content |-> st.content \o sep \o ReferenceString(ref), switch |-> TRUE]

\* the second branch: the state after a figure/table marker
MarkerStep(st) == [content |-> CaptionSub(st.content, 1), switch |-> TRUE]

\* TextEnd with the leading character never dropped
TextEnd_NeverDrop(sw, text) == text

\* TextEnd with the flag ignored: a leading ")" or " " is always dropped
TextEnd_IgnoreFlag(sw, text) ==
    IF startswith(text, <<")">>) \/ startswith(text, <<" ">>) THEN From(text, 2) ELSE text

\* the text a text node contributes, given the flag
TextEnd(sw, text) ==
    IF sw /\ (startswith(text, <<")">>) \/ startswith(text, <<" ">>))
    THEN From(text, 2)
    ELSE text

\* TextStep without the reset of the flag
TextStep_KeepFlag(st, element) ==
    [content |-> st.content \o SuppSub(TextEnd(st.switch, element.string), 1),
     switch |-> st.switch]

\* the third branch: the state after a text node
TextStep(st, element) ==
    [content |-> st.content \o SuppSub(TextEnd(st.switch, element.string), 1),
     switch |-> FALSE]

\* one iteration of the loop over paragraph.contents
StepElement(st, element, refs) ==
    IF IsCitationBranch(element, refs) THEN CitationStep(st, element, refs)
    ELSE IF IsMarkerBranch(element, refs) THEN MarkerStep(st)
    ELSE IF IsTextBranch(element, refs) THEN TextStep(st, element)
    ELSE st

WalkStart == [content |-> <<>>, switch |-> FALSE]

\* the loop over the children from position i on, started in state st
RECURSIVE WalkFrom(_, _, _, _)
WalkFrom(children, refs, st, i) ==
    IF i > Len(children) THEN st
    ELSE WalkFrom(children, refs, StepElement(st, children[i], refs), i + 1)

\* what evaluating paragraph.contents on a NavigableString raises
AttributeError == <<"<AttributeError>">>

\* bool(paragraph): a Tag is always true, a string is true when non-empty
NodeTruthy(p) == IF IsTag(p) THEN TRUE ELSE p.string # <<>>

\* reconstruct_paragraph(paragraph, reference_dict): the string returned, or the
\* exception raised
reconstruct_paragraph(p, refs) ==
    IF ~NodeTruthy(p) THEN <<>>
    ELSE IF IsNavigableString(p) THEN AttributeError
    ELSE IF p.contents = <<>> THEN <<>>
    ELSE WalkFrom(p.contents, refs, WalkStart, 1).content

(***************************************************************************)
(* Sample data: the nodes paragraphs are built from, and reference tables. *)
(***************************************************************************)
SeqsUpTo(S, n) == UNION {[1..k -> S] : k \in 0..n}

B1 == <<"b","1">>
B2 == <<"b","2">>

RefB1 == Tag("ref", Attr2("type", Bibr, "target", <<"#","b","1">>), <<NavigableString(<<"[","1","]">>)>>)
RefB2 == Tag("ref", Attr2("type", Bibr, "target", <<"#","b","2">>), <<NavigableString(<<"[","2","]">>)>>)
RefB9 == Tag("ref", Attr2("type", Bibr, "target", <<"#","b","9">>), <<NavigableString(<<"[","9","]">>)>>)
FigRef == Tag("ref", Attr2("type", <<"f","i","g","u","r","e">>, "target", <<"#","f","i","g","_","0">>), <<NavigableString(<<"1">>)>>)
Untyped == Tag("hi", NoAttrs, <<NavigableString(<<"i","n"," ","v","i","t","r","o">>)>>)
TxtConfirms == NavigableString(<<" ","c","o","n","f","i","r","m","s"," ","t","h","i","s",".">>)
TxtCaption == NavigableString(<<"T","a","b","l","e"," ","1"," ","a","n","d"," ","(","F","i","g","."," ">>)
TxtSupp == NavigableString(<<")"," ","(","s","e","e"," ","S","u","p","p","l","e","m","e","n","t","a","r","y",")"," ","x">>)

ChildPool == {RefB1, RefB2, RefB9, FigRef, Untyped, TxtConfirms, TxtCaption, TxtSupp}

RecAStudy == [title |-> <<"A"," ","S","t","u","d","y">>, author |-> <<"S","m","i","t","h"," ","J">>]
RecSuppNotes == [title |-> <<"S","u","p","p","l","e","m","e","n","t","a","r","y"," ","N","o","t","e","s">>, author |-> <<"L","e","e"," ","K">>]

TableOne == <<[key |-> B1, value |-> RecAStudy]>>
TableTwo == <<[key |-> B1, value |-> RecAStudy], [key |-> B2, value |-> RecSuppNotes]>>

TablePool == {EmptyDict, TableOne, TableTwo}

Paragraph(children) == Tag("p", NoAttrs, children)

ParagraphPool == {Paragraph(cs) : cs \in SeqsUpTo(ChildPool, MaxChildren)}

\* the variables of reconstruct_paragraph's walk while nothing runs it
IdleWalk ==
    /\ paragraph = NoNode
    /\ idx = 0
    /\ paragraph_content = <<>>
    /\ switch = FALSE
    /\ para_result = None
    /\ ppc = "idle"

\* the variables of parse_references' loop while nothing runs it
IdleBuilder ==
    /\ reference_list = EmptyDict
    /\ ref_elems = <<>>
    /\ ridx = 0
    /\ rpc = "idle"

\* a value not yet computed
Unset == <<"<unset>">>

\* the variables of the extractor calls while nothing runs them
IdleMeta ==
    /\ meta = [f \in {"title", "language", "publisher", "journal", "release_year", "doi"}
                 |-> Unset]
    /\ mpc = "idle"

\* _parse_xml's return value: "dict" with its fields, "None", or "" before it returns
NoRecord(returned) ==
    [returned |-> returned, title |-> <<>>, language |-> <<>>, publisher |-> <<>>,
     journal |-> <<>>, release_year |-> <<>>, doi |-> <<>>, referencecount |-> 0,
     text |-> <<>>]

\* the variables of parse_text and _parse_xml while nothing runs them
IdleDoc ==
    /\ sections = <<>>
    /\ divs = <<>>
    /\ didx = 0
    /\ sidx = 0
    /\ article_text = <<>>
    /\ record = NoRecord("")
    /\ dpc = "idle"

\* the variables of the upload handler while no request is handled
IdleApp ==
    /\ clock = 0
    /\ static_folder = <<>>
    /\ handler = <<>>

(***************************************************************************)
(* SpecPara: one call of reconstruct_paragraph, one loop iteration a step. *)
(***************************************************************************)
InitPara ==
    /\ paragraph \in ParagraphPool
    /\ reference_dict \in TablePool
    /\ idx = 0
    /\ paragraph_content = <<>>
    /\ switch = FALSE
    /\ para_result = None
    /\ ppc = "start"
    /\ article = NoNode
    /\ referencecount = -1
    /\ IdleBuilder
    /\ IdleMeta
    /\ IdleDoc
    /\ IdleApp

\* the child the loop is at
Element == paragraph.contents[idx + 1]

WalkState == [content |-> paragraph_content, switch |-> switch]

\* if not paragraph or not paragraph.contents: return ""
ReturnEmpty ==
    /\ ppc = "start"
    /\ ~NodeTruthy(paragraph) \/ paragraph.contents = <<>>
    /\ para_result' = <<>>
    /\ ppc' = "done"
    /\ UNCHANGED <<paragraph, reference_dict, idx, paragraph_content, switch>>
    /\ UNCHANGED notPara

\* switch = False; paragraph_content = ""
EnterLoop ==
    /\ ppc = "start"
    /\ NodeTruthy(paragraph) /\ paragraph.contents # <<>>
    /\ switch' = FALSE
    /\ paragraph_content' = <<>>
    /\ idx' = 0
    /\ ppc' = "walk"
    /\ UNCHANGED <<paragraph, reference_dict, para_result>>
    /\ UNCHANGED notPara

\* an iteration taking the citation branch
WalkCitation ==
    /\ ppc = "walk" /\ idx < Len(paragraph.contents)
    /\ IsCitationBranch(Element, reference_dict)
    /\ paragraph_content' = CitationStep(WalkState, Element, reference_dict).content
    /\ switch' = CitationStep(WalkState, Element, reference_dict).switch
    /\ idx' = idx + 1
    /\ UNCHANGED <<paragraph, reference_dict, para_result, ppc>>
    /\ UNCHANGED notPara

\* an iteration taking the figure/table branch
WalkMarker ==
    /\ ppc = "walk" /\ idx < Len(paragraph.contents)
    /\ IsMarkerBranch(Element, reference_dict)
    /\ paragraph_content' = MarkerStep(WalkState).content
    /\ switch' = MarkerStep(WalkState).switch
    /\ idx' = idx + 1
    /\ UNCHANGED <<paragraph, reference_dict, para_result, ppc>>
    /\ UNCHANGED notPara

\* an iteration taking the text branch
WalkText ==
    /\ ppc = "walk" /\ idx < Len(paragraph.contents)
    /\ IsTextBranch(Element, reference_dict)
    /\ paragraph_content' = TextStep(WalkState, Element).content
    /\ switch' = TextStep(WalkState, Element).switch
    /\ idx' = idx + 1
    /\ UNCHANGED <<paragraph, reference_dict, para_result, ppc>>
    /\ UNCHANGED notPara

\* an iteration taking no branch
WalkOther ==
    /\ ppc = "walk" /\ idx < Len(paragraph.contents)
    /\ ~IsCitationBranch(Element, reference_dict)
    /\ ~IsMarkerBranch(Element, reference_dict)
    /\ ~IsTextBranch(Element, reference_dict)
    /\ idx' = idx + 1
    /\ UNCHANGED <<paragraph, reference_dict, paragraph_content, switch, para_result, ppc>>
    /\ UNCHANGED notPara

\* return paragraph_content
ReturnContent ==
    /\ ppc = "walk" /\ idx = Len(paragraph.contents)
    /\ para_result' = paragraph_content
    /\ ppc' = "done"
    /\ UNCHANGED <<paragraph, reference_dict, idx, paragraph_content, switch>>
    /\ UNCHANGED notPara

NextPara ==
    \/ ReturnEmpty
    \/ EnterLoop
    \/ WalkCitation
    \/ WalkMarker
    \/ WalkText
    \/ WalkOther
    \/ ReturnContent

SpecPara == InitPara /\ [][NextPara]_vars

(***************************************************************************)
(* Claims about reconstruct_paragraph (checked under SpecPara).            *)
(***************************************************************************)
B9 == <<"b","9">>

\* a citation marker: a bibliographic reference element with a target
IsCitationMarker(e) == IsTag(e) /\ Get(e, "type") = Bibr /\ Truthy(Get(e, "target"))

\* a citation marker whose derived id is absent from the table
IsUnresolved(e, refs) == IsCitationMarker(e) /\ ~DictHas(refs, TargetId(e))

\* the child sequence with child i removed
Without(children, i) == SubSeq(children, 1, i - 1) \o SubSeq(children, i + 1, Len(children))

\* the scenario of C1: markers b1 (known: A Study, Smith J) and b9 (unknown), then text
C1_Scenario ==
    /\ ppc = "done"
    /\ paragraph.contents = <<RefB1, RefB9, TxtConfirms>>
    /\ DictHas(reference_dict, B1) /\ DictGet(reference_dict, B1) = RecAStudy
    /\ ~DictHas(reference_dict, B9)

\* C1 as stated: the scenario returns
\* "[bib_ref] A Study, Smith J [/bib_ref] confirms this.", one space after the
\* closing token.
C1_SpaceKept ==
    C1_Scenario => para_result = <<"[","b","i","b","_","r","e","f","]"," ","A"," ","S","t","u","d","y",","," ","S","m","i","t","h"," ","J"," ","[","/","b","i","b","_","r","e","f","]"," ","c","o","n","f","i","r","m","s"," ","t","h","i","s",".">>

\* C1 as amended: the scenario returns
\* "[bib_ref] A Study, Smith J [/bib_ref]confirms this.": the unknown marker
\* contributes nothing and leaves the flag set by the first marker, so the leading
\* space of the text node is dropped.
C1_SpaceDropped ==
    C1_Scenario => para_result = <<"[","b","i","b","_","r","e","f","]"," ","A"," ","S","t","u","d","y",","," ","S","m","i","t","h"," ","J"," ","[","/","b","i","b","_","r","e","f","]","c","o","n","f","i","r","m","s"," ","t","h","i","s",".">>

C1_Witness == C1_Scenario /\ para_result # None

\* C2: a citation marker whose derived id is absent from the table (the empty
\* table included) leaves the accumulated text and the flag unchanged, and the
\* paragraph's output equals the output of the children without that marker.
C2_UnresolvedMarkerIsNoOp ==
    /\ (ppc = "walk" /\ idx < Len(paragraph.contents)
            /\ IsUnresolved(Element, reference_dict))
        => StepElement(WalkState, Element, reference_dict) = WalkState
    /\ ppc = "done"
        => \A i \in 1..Len(paragraph.contents) :
              IsUnresolved(paragraph.contents[i], reference_dict)
              => para_result =
                    reconstruct_paragraph(Paragraph(Without(paragraph.contents, i)),
                                          reference_dict)

\* the returned string reconstructed again as the single bare text child of a paragraph
Again == reconstruct_paragraph(Paragraph(<<NavigableString(para_result)>>), reference_dict)

\* C9 as stated: reconstructing the returned string again returns it unchanged.
C9_Idempotent == ppc = "done" => Again = para_result

\* C9 as amended: reconstructing the returned string again returns it unchanged
\* exactly when the returned string holds no occurrence of "supplementary" (in any
\* letter case); an occurrence, as in a cited title, is removed by the second pass.
C9_IdempotentUnlessSupplementary ==
    ppc = "done" => (Again = para_result <=> ~Contains(lower(para_result), KwSupplementary))

C9_Witness ==
    /\ ppc = "done"
    /\ reference_dict = TableOne
    /\ \E i, j \in 1..Len(paragraph.contents) :
          paragraph.contents[i] = RefB1 /\ paragraph.contents[j] = TxtSupp
    /\ ~Contains(lower(para_result), KwSupplementary)
    /\ Again = para_result

(***************************************************************************)
(* Tree queries (bs4): find, find_all, .text                               *)
(***************************************************************************)
\* the descendants of the nodes cs, in document order
RECURSIVE DescendantsOf(_)
DescendantsOf(cs) ==
    IF cs = <<>> THEN <<>>
    ELSE <<Head(cs)>> \o DescendantsOf(Head(cs).contents) \o DescendantsOf(Tail(cs))

\* a tag of that name carrying every attribute of cons (pairs <<name, value>>)
Matches(e, name, cons) ==
    IsTag(e) /\ e.name = name /\ \A c \in cons : Get(e, c[1]) = c[2]

\* node.find_all(name, attrs=cons)
find_all(node, name, cons) ==
    SelectSeq(DescendantsOf(node.contents), LAMBDA e : Matches(e, name, cons))

\* node.find(name, attrs=cons): the first match, or None
find(node, name, cons) ==
    IF find_all(node, name, cons) = <<>> THEN NoNode ELSE find_all(node, name, cons)[1]

\* the strings below the nodes cs, concatenated
RECURSIVE TextOfSeq(_)
TextOfSeq(cs) ==
    IF cs = <<>> THEN <<>>
    ELSE (IF IsNavigableString(Head(cs)) THEN Head(cs).string
          ELSE TextOfSeq(Head(cs).contents)) \o TextOfSeq(Tail(cs))

\* node.text
TextOf(node) == IF IsNavigableString(node) THEN node.string ELSE TextOfSeq(node.contents)

(***************************************************************************)
(* parse_references                                                        *)
(***************************************************************************)
\* references = article.find("text") ... .find("div", attrs={"type": "references"})
ReferencesDiv(art) ==
    IF find(art, "text", {}) = NoNode THEN NoNode
    ELSE find(find(art, "text", {}), "div", {<<"type", <<"r","e","f","e","r","e","n","c","e","s">>>>})

\* ref_id = elem.get('xml:id', "")
RefId(elem) == IF Get(elem, "xml:id") = None THEN <<>> ELSE Get(elem, "xml:id")

\* the title text: level "a", else level "m", else ""
EntryTitle(elem) ==
    LET a == find(elem, "title", {<<"level", <<"a">>>>})
        t == IF a = NoNode THEN find(elem, "title", {<<"level", <<"m">>>>}) ELSE a
    IN  IF t # NoNode THEN TextOf(t) ELSE <<>>

\* x.text.strip() if x else "", for x = author.find(name, cons)
NamePart(author, name, cons) ==
    IF find(author, name, cons) # NoNode THEN strip(TextOf(find(author, name, cons)))
    ELSE <<>>

\* f"{lastname} {firstname}{middlename}".strip()
AuthorString(author) ==
    strip(NamePart(author, "surname", {}) \o <<" ">>
          \o NamePart(author, "forename", {<<"type", <<"f","i","r","s","t">>>>})
          \o NamePart(author, "forename", {<<"type", <<"m","i","d","d","l","e">>>>}))

\* if (not authors) or (not title): continue
EntrySkipped(elem) == find_all(elem, "author", {}) = <<>> \/ EntryTitle(elem) = <<>>

\* the record stored for an entry that is kept
EntryRecord(elem) ==
    [title |-> EntryTitle(elem), author |-> AuthorString(find_all(elem, "author", {})[1])]

\* one iteration of the loop over the biblstruct elements
EntryStep(list, elem) ==
    IF EntrySkipped(elem) THEN list ELSE DictSet(list, RefId(elem), EntryRecord(elem))

RECURSIVE EntriesFrom(_, _, _)
EntriesFrom(elems, list, i) ==
    IF i > Len(elems) THEN list ELSE EntriesFrom(elems, EntryStep(list, elems[i]), i + 1)

\* parse_references(article)
parse_references(art) ==
    IF ReferencesDiv(art) = NoNode THEN EmptyDict
    ELSE EntriesFrom(find_all(ReferencesDiv(art), "biblstruct", {}), EmptyDict, 1)

(***************************************************************************)
(* Sample documents for the reference table builder.                       *)
(***************************************************************************)
MaxEntries == 2

Leaf(name, attrs, t) == Tag(name, attrs, <<NavigableString(t)>>)

Author(parts) == Tag("author", NoAttrs, <<Tag("persname", NoAttrs, parts)>>)

BiblStruct(attrs, analytic, monogr) ==
    Tag("biblstruct", attrs,
        <<Tag("analytic", NoAttrs, analytic), Tag("monogr", NoAttrs, monogr)>>)

\* b1: A Study, Smith J
EntryB1 ==
    BiblStruct(Attr("xml:id", B1),
        <<Leaf("title", Attr2("level", <<"a">>, "type", <<"m","a","i","n">>), <<"A"," ","S","t","u","d","y">>),
          Author(<<Leaf("forename", Attr("type", <<"f","i","r","s","t">>), <<"J">>),
                   Leaf("surname", NoAttrs, <<"S","m","i","t","h">>)>>)>>,
        <<Leaf("title", Attr("level", <<"j">>), <<"N","a","t","u","r","e">>)>>)

\* a second entry with identifier b1, with a middle name and a second author
EntryB1Again ==
    BiblStruct(Attr("xml:id", B1),
        <<Leaf("title", Attr2("level", <<"a">>, "type", <<"m","a","i","n">>), <<"O","t","h","e","r"," ","W","o","r","k">>),
          Author(<<Leaf("forename", Attr("type", <<"f","i","r","s","t">>), <<"K">>),
                   Leaf("forename", Attr("type", <<"m","i","d","d","l","e">>), <<"R">>),
                   Leaf("surname", NoAttrs, <<"L","e","e">>)>>),
          Author(<<Leaf("surname", NoAttrs, <<"P","a","r","k">>)>>)>>,
        <<>>)

\* an entry without identifier, titled at monograph level only
EntryNoId ==
    BiblStruct(NoAttrs, <<>>,
        <<Leaf("title", Attr2("level", <<"m">>, "type", <<"m","a","i","n">>), <<"A"," ","B","o","o","k">>),
          Author(<<Leaf("surname", NoAttrs, <<"K","i","m">>)>>)>>)

\* an entry whose author element carries no name parts
EntryOrgAuthor ==
    BiblStruct(Attr("xml:id", B2),
        <<Leaf("title", Attr2("level", <<"a">>, "type", <<"m","a","i","n">>), <<"R","e","p","o","r","t">>),
          Tag("author", NoAttrs, <<Leaf("orgname", NoAttrs, <<"W","H","O">>)>>)>>,
        <<>>)

\* an entry without title
EntryNoTitle ==
    BiblStruct(Attr("xml:id", <<"b","3">>),
        <<Author(<<Leaf("surname", NoAttrs, <<"D","i","a","z">>)>>)>>,
        <<Leaf("title", Attr("level", <<"j">>), <<"S","c","i","e","n","c","e">>)>>)

\* an entry without author
EntryNoAuthor ==
    BiblStruct(Attr("xml:id", <<"b","4">>),
        <<Leaf("title", Attr2("level", <<"a">>, "type", <<"m","a","i","n">>), <<"A","n","o","n","y","m","o","u","s"," ","N","o","t","e">>)>>,
        <<>>)

EntryPool == {EntryB1, EntryB1Again, EntryNoId, EntryOrgAuthor, EntryNoTitle, EntryNoAuthor}

\* the references division holding the given entries
ReferencesDivOf(entries) ==
    Tag("div", Attr("type", <<"r","e","f","e","r","e","n","c","e","s">>), <<Tag("listbibl", NoAttrs, entries)>>)

\* the text region: the body divisions, then the back matter
TextRegion(bodyDivs, back) ==
    Tag("text", Attr("xml:lang", <<"e","n">>),
        <<Tag("body", NoAttrs, bodyDivs), Tag("back", NoAttrs, back)>>)

\* the parsed document with the given regions below its root element
Soup(regions) == Tag("[document]", NoAttrs, <<Tag("tei", NoAttrs, regions)>>)

RefDocPool ==
    {Soup(<<TextRegion(<<>>, <<ReferencesDivOf(es)>>)>>) : es \in SeqsUpTo(EntryPool, MaxEntries)}
    \cup {Soup(<<>>), Soup(<<TextRegion(<<>>, <<>>)>>)}

(***************************************************************************)
(* SpecRefs: parse_text's call of parse_references, one entry a step, and   *)
(* the count it returns.                                                   *)
(***************************************************************************)
InitRefs ==
    /\ article \in RefDocPool
    /\ reference_list = EmptyDict
    /\ ref_elems = <<>>
    /\ ridx = 0
    /\ referencecount = -1
    /\ rpc = "start"
    /\ reference_dict = EmptyDict
    /\ IdleWalk
    /\ IdleMeta
    /\ IdleDoc
    /\ IdleApp

\* references = article.find("text"); if not references: return reference_list
RefNoText ==
    /\ rpc = "start"
    /\ find(article, "text", {}) = NoNode
    /\ rpc' = "return"
    /\ UNCHANGED <<article, reference_list, ref_elems, ridx, referencecount>>
    /\ UNCHANGED notRef

\* references = references.find("div", ...); if not references: return reference_list
RefNoDiv ==
    /\ rpc = "start"
    /\ find(article, "text", {}) # NoNode
    /\ ReferencesDiv(article) = NoNode
    /\ rpc' = "return"
    /\ UNCHANGED <<article, reference_list, ref_elems, ridx, referencecount>>
    /\ UNCHANGED notRef

\* for elem in references.find_all("biblstruct")
RefEnter ==
    /\ rpc = "start"
    /\ ReferencesDiv(article) # NoNode
    /\ ref_elems' = find_all(ReferencesDiv(article), "biblstruct", {})
    /\ ridx' = 0
    /\ rpc' = "loop"
    /\ UNCHANGED <<article, reference_list, referencecount>>
    /\ UNCHANGED notRef

\* an iteration that skips its entry (continue)
RefSkip ==
    /\ rpc = "loop" /\ ridx < Len(ref_elems)
    /\ EntrySkipped(ref_elems[ridx + 1])
    /\ ridx' = ridx + 1
    /\ UNCHANGED <<article, reference_list, ref_elems, referencecount, rpc>>
    /\ UNCHANGED notRef

\* an iteration that stores its entry under its identifier
RefStore ==
    /\ rpc = "loop" /\ ridx < Len(ref_elems)
    /\ ~EntrySkipped(ref_elems[ridx + 1])
    /\ reference_list' = EntryStep(reference_list, ref_elems[ridx + 1])
    /\ ridx' = ridx + 1
    /\ UNCHANGED <<article, ref_elems, referencecount, rpc>>
    /\ UNCHANGED notRef

\* return reference_list
RefReturn ==
    /\ rpc = "loop" /\ ridx = Len(ref_elems)
    /\ rpc' = "return"
    /\ UNCHANGED <<article, reference_list, ref_elems, ridx, referencecount>>
    /\ UNCHANGED notRef

\* parse_text: return len(reference_dict), ...
RefCount ==
    /\ rpc = "return"
    /\ referencecount' = Len(reference_list)
    /\ rpc' = "done"
    /\ UNCHANGED <<article, reference_list, ref_elems, ridx>>
    /\ UNCHANGED notRef

NextRefs ==
    \/ RefNoText
    \/ RefNoDiv
    \/ RefEnter
    \/ RefSkip
    \/ RefStore
    \/ RefReturn
    \/ RefCount

SpecRefs == InitRefs /\ [][NextRefs]_vars

(***************************************************************************)
(* Claims about the reference table (checked under SpecRefs).              *)
(***************************************************************************)
\* the bibliographic entries of the document's references division
Entries == find_all(ReferencesDiv(article), "biblstruct", {})

\* an entry whose title and first author are both non-empty
EntryComplete(elem) ==
    /\ EntryTitle(elem) # <<>>
    /\ find_all(elem, "author", {}) # <<>>
    /\ AuthorString(find_all(elem, "author", {})[1]) # <<>>

\* C3: for a document with a non-empty references division, referencecount equals
\* the number of bibliographic entries whose title and author are both non-empty,
\* whatever the entries (shared identifiers, no identifier, authors without name parts).
C3_CountsCompleteEntries ==
    (rpc = "done" /\ ReferencesDiv(article) # NoNode /\ Entries # <<>>)
    => referencecount = Cardinality({i \in 1..Len(Entries) : EntryComplete(Entries[i])})

\* C4: every record stored in the reference table has a non-empty title and a
\* non-empty author, so no citation string with a blank field can be emitted.
C4_RecordsHaveTitleAndAuthor ==
    \A i \in 1..Len(reference_list) :
        /\ reference_list[i].value.title # <<>>
        /\ reference_list[i].value.author # <<>>

(***************************************************************************)
(* The metadata extractors.                                                *)
(***************************************************************************)
\* a literal word at position i, exactly
MatchExact(s, i, word) ==
    i + Len(word) - 1 <= Len(s) /\ SubSeq(s, i, i + Len(word) - 1) = word

\* the character references html.unescape is modelled for: &amp &lt &gt &quot
Entities == <<[name |-> <<"a","m","p">>, char |-> "&"], [name |-> <<"l","t">>, char |-> "<"],
              [name |-> <<"g","t">>, char |-> ">"], [name |-> <<"q","u","o","t">>, char |-> "\""]>>

\* the entity named after the "&" at position i, or 0
EntityAt(s, i) ==
    IF s[i] = "&" /\ \E k \in 1..Len(Entities) : MatchExact(s, i + 1, Entities[k].name)
    THEN CHOOSE k \in 1..Len(Entities) : MatchExact(s, i + 1, Entities[k].name)
    ELSE 0

\* html.unescape(s), scanning from position i: a named reference, with or
\* without its ";", becomes its character
RECURSIVE unescape(_, _)
unescape(s, i) ==
    IF i > Len(s) THEN <<>>
    ELSE IF EntityAt(s, i) # 0
    THEN <<Entities[EntityAt(s, i)].char>>
         \o unescape(s, SkipOptional(s, i + 1 + Len(Entities[EntityAt(s, i)].name), ";"))
    ELSE <<s[i]>> \o unescape(s, i + 1)

\* the position after the tag opening at position i ("<", a letter or "/", ..., ">"), or 0
TagEnd(s, i) ==
    IF /\ s[i] = "<" /\ i + 1 <= Len(s) /\ (s[i + 1] \in Letters \/ s[i + 1] = "/")
       /\ \E j \in (i + 1)..Len(s) : s[j] = ">"
    THEN 1 + CHOOSE j \in (i + 1)..Len(s) :
                 s[j] = ">" /\ \A k \in (i + 1)..(j - 1) : s[k] # ">"
    ELSE 0

\* BeautifulSoup(s, "html.parser").get_text(), scanning from position i: the
\* text with its markup tags removed
RECURSIVE get_text(_, _)
get_text(s, i) ==
    IF i > Len(s) THEN <<>>
    ELSE IF TagEnd(s, i) # 0 THEN get_text(s, TagEnd(s, i))
    ELSE <<s[i]>> \o get_text(s, i + 1)

\* x.text.strip() if x is found else ""
StrippedText(node) == IF node # NoNode THEN strip(TextOf(node)) ELSE <<>>

Main == <<"m","a","i","n">>

parse_title(art) ==
    IF find(art, "titlestmt", {}) = NoNode THEN <<>>
    ELSE get_text(unescape(StrippedText(find(find(art, "titlestmt", {}), "title",
                                             {<<"type", Main>>})), 1), 1)

parse_language(art) ==
    IF find(art, "teiheader", {}) # NoNode THEN Get(find(art, "teiheader", {}), "xml:lang")
    ELSE <<>>

\* parse_publisher(article): the pair (publisher, journal)
parse_publisher(art) ==
    LET monogr_tag == find(art, "monogr", {})
        journal == StrippedText(find(monogr_tag, "title", {<<"type", Main>>}))
        imprint == find(monogr_tag, "imprint", {})
    IN  IF monogr_tag = NoNode THEN <<<<>>, <<>>>>
        ELSE IF imprint = NoNode THEN <<<<>>, journal>>
        ELSE <<StrippedText(find(imprint, "publisher", {})), journal>>

parse_year(art) ==
    LET pub_date == find(art, "publicationstmt", {})
        year == find(pub_date, "date", {})
    IN  IF pub_date = NoNode THEN <<>>
        ELSE IF year = NoNode THEN <<>>
        ELSE IF Get(year, "when") = None THEN <<>> ELSE Get(year, "when")

parse_doi(art) == StrippedText(find(art, "idno", {<<"type", <<"D","O","I">>>>}))

(***************************************************************************)
(* Sample documents for the metadata extractors: every combination of the  *)
(* header's parts being absent, partial or complete.                       *)
(***************************************************************************)
TitleStmtPool ==
    {<<>>,
     <<Tag("titlestmt", NoAttrs, <<>>)>>,
     <<Tag("titlestmt", NoAttrs,
           <<Leaf("title", Attr2("level", <<"a">>, "type", Main), <<" ","E","f","f","e","c","t"," ","o","f"," ","&","a","m","p",";"," ","o","n"," ","X"," ">>)>>)>>,
     <<Tag("titlestmt", NoAttrs,
           <<Leaf("title", Attr2("level", <<"a">>, "type", Main), <<"&","l","t",";","i","&","g","t",";","I","n"," ","v","i","t","r","o","&","l","t",";","/","i","&","g","t",";"," ","s","t","u","d","y">>)>>)>>}

PublicationStmtPool ==
    {<<>>,
     <<Tag("publicationstmt", NoAttrs, <<Leaf("publisher", NoAttrs, <<"E","l","s","e","v","i","e","r">>)>>)>>,
     <<Tag("publicationstmt", NoAttrs, <<Leaf("date", Attr("type", <<"p","u","b","l","i","s","h","e","d">>), <<"M","a","y"," ","2","0","2","0">>)>>)>>,
     <<Tag("publicationstmt", NoAttrs,
           <<Leaf("date", Attr2("type", <<"p","u","b","l","i","s","h","e","d">>, "when", <<"2","0","2","0","-","0","5","-","0","1">>), <<"M","a","y"," ","2","0","2","0">>)>>)>>}

JournalTitle == Leaf("title", Attr2("level", <<"j">>, "type", Main), <<" ","T","h","e"," ","L","a","n","c","e","t"," ">>)

MonogrPool ==
    {<<>>,
     <<Tag("monogr", NoAttrs, <<JournalTitle>>)>>,
     <<Tag("monogr", NoAttrs, <<JournalTitle, Tag("imprint", NoAttrs, <<>>)>>)>>,
     <<Tag("monogr", NoAttrs,
           <<Tag("imprint", NoAttrs, <<Leaf("publisher", NoAttrs, <<"E","l","s","e","v","i","e","r">>)>>)>>)>>,
     <<Tag("monogr", NoAttrs,
           <<JournalTitle,
             Tag("imprint", NoAttrs, <<Leaf("publisher", NoAttrs, <<"E","l","s","e","v","i","e","r">>)>>)>>)>>}

IdnoPool ==
    {<<>>,
     <<Leaf("idno", Attr("type", <<"M","D","5">>), <<"0","A","1","B">>)>>,
     <<Leaf("idno", Attr("type", <<"D","O","I">>), <<" ","1","0",".","1","0","0","0","/","x","1"," ">>)>>}

\* the header: its attributes, the parts of its file description, its abstract
TeiHeader(attrs, titlestmt, publicationstmt, source, profile) ==
    Tag("teiheader", attrs,
        <<Tag("filedesc", NoAttrs,
              titlestmt \o publicationstmt
              \o <<Tag("sourcedesc", NoAttrs, <<Tag("biblstruct", NoAttrs, source)>>)>>),
          Tag("profiledesc", NoAttrs, profile)>>)

MetaDocPool ==
    {Soup(<<>>)} \cup
    {Soup(<<TeiHeader(la, ts, ps, mg \o id, <<>>)>>) :
        la \in {NoAttrs, Attr("xml:lang", <<"e","n">>)}, ts \in TitleStmtPool,
        ps \in PublicationStmtPool, mg \in MonogrPool, id \in IdnoPool}

(***************************************************************************)
(* SpecMeta: the extractor calls of _parse_xml, in its order.              *)
(***************************************************************************)
InitMeta ==
    /\ article \in MetaDocPool
    /\ meta = [f \in {"title", "language", "publisher", "journal", "release_year", "doi"}
                 |-> Unset]
    /\ mpc = "parse_publisher"
    /\ reference_dict = EmptyDict
    /\ referencecount = -1
    /\ IdleWalk
    /\ IdleBuilder
    /\ IdleDoc
    /\ IdleApp

\* publisher, journal = parse_publisher(article)
CallParsePublisher ==
    /\ mpc = "parse_publisher"
    /\ meta' = [meta EXCEPT !.publisher = parse_publisher(article)[1],
                            !.journal = parse_publisher(article)[2]]
    /\ mpc' = "parse_title"
    /\ UNCHANGED article
    /\ UNCHANGED notMeta

\* "title": parse_title(article)
CallParseTitle ==
    /\ mpc = "parse_title"
    /\ meta' = [meta EXCEPT !.title = parse_title(article)]
    /\ mpc' = "parse_language"
    /\ UNCHANGED article
    /\ UNCHANGED notMeta

\* "language": parse_language(article)
CallParseLanguage ==
    /\ mpc = "parse_language"
    /\ meta' = [meta EXCEPT !.language = parse_language(article)]
    /\ mpc' = "parse_year"
    /\ UNCHANGED article
    /\ UNCHANGED notMeta

\* "release_year": parse_year(article)
CallParseYear ==
    /\ mpc = "parse_year"
    /\ meta' = [meta EXCEPT !.release_year = parse_year(article)]
    /\ mpc' = "parse_doi"
    /\ UNCHANGED article
    /\ UNCHANGED notMeta

\* "doi": parse_doi(article)
CallParseDoi ==
    /\ mpc = "parse_doi"
    /\ meta' = [meta EXCEPT !.doi = parse_doi(article)]
    /\ mpc' = "done"
    /\ UNCHANGED article
    /\ UNCHANGED notMeta

NextMeta ==
    \/ CallParsePublisher
    \/ CallParseTitle
    \/ CallParseLanguage
    \/ CallParseYear
    \/ CallParseDoi

SpecMeta == InitMeta /\ [][NextMeta]_vars

(***************************************************************************)
(* Claim about the metadata extractors (checked under SpecMeta).           *)
(***************************************************************************)
\* the element an extractor reads, found through the given path of tag names
\* from the document, or None when a level is missing
RECURSIVE Along(_, _)
Along(node, path) ==
    IF node = NoNode \/ path = <<>> THEN node
    ELSE Along(find(node, path[1].name, path[1].attrs), Tail(path))

Step(name) == [name |-> name, attrs |-> {}]

StepMain == [name |-> "title", attrs |-> {<<"type", Main>>}]

\* C6: every extractor returns a string (never None), and the empty string
\* whenever the region, the element or the attribute it reads is absent.
C6_ExtractorsReturnStrings ==
    /\ \A f \in DOMAIN meta : meta[f] # None
    /\ (meta.title # Unset /\ Along(article, <<Step("titlestmt"), StepMain>>) = NoNode)
        => meta.title = <<>>
    /\ (meta.language # Unset
            /\ (find(article, "teiheader", {}) = NoNode
                \/ Get(find(article, "teiheader", {}), "xml:lang") = None))
        => meta.language = <<>>
    /\ (meta.journal # Unset /\ Along(article, <<Step("monogr"), StepMain>>) = NoNode)
        => meta.journal = <<>>
    /\ (meta.publisher # Unset
            /\ Along(article, <<Step("monogr"), Step("imprint"), Step("publisher")>>) = NoNode)
        => meta.publisher = <<>>
    /\ (meta.release_year # Unset
            /\ (Along(article, <<Step("publicationstmt"), Step("date")>>) = NoNode
                \/ Get(Along(article, <<Step("publicationstmt"), Step("date")>>), "when") = None))
        => meta.release_year = <<>>
    /\ (meta.doi # Unset /\ find(article, "idno", {<<"type", <<"D","O","I">>>>}) = NoNode)
        => meta.doi = <<>>

(***************************************************************************)
(* parse_text: the section assembler                                       *)
(***************************************************************************)
Xmlns == <<"h","t","t","p",":","/","/","w","w","w",".","t","e","i","-","c",".","o","r","g","/","n","s","/","1",".","0">>

\* region.find_all("div", attrs={"xmlns": "http://www.tei-c.org/ns/1.0"})
SectionDivs(region) == find_all(region, "div", {<<"xmlns", Xmlns>>})

common_titles ==
    {<<"a","b","s","t","r","a","c","t">>, <<"i","n","t","r","o","d","u","c","t","i","o","n">>, <<"m","a","t","e","r","i","a","l","a","n","d","m","e","t","h","o","d","s">>, <<"m","e","t","h","o","d","s">>, <<"r","e","s","u","l","t","s">>,
     <<"d","i","s","c","u","s","s","i","o","n">>, <<"c","o","n","c","l","u","s","i","o","n">>}

irrelevant_sections ==
    {<<"a","c","k","n","o","w","l","e","d","g","e","m","e","n","t">>, <<"c","o","n","f","l","i","c","t"," ","o","f"," ","i","n","t","e","r","e","s","t">>, <<"f","u","n","d","i","n","g">>, <<"a","u","t","h","o","r"," ","c","o","n","t","r","i","b","u","t","i","o","n">>,
     <<"c","o","m","p","e","t","i","n","g"," ","i","n","t","e","r","e","s","t","s">>, <<"s","u","p","p","l","e","m","e","n","t","a","r","y"," ","m","a","t","e","r","i","a","l">>, <<"a","d","d","i","t","i","o","n","a","l"," ","i","n","f","o","r","m","a","t","i","o","n">>,
     <<"s","u","p","p","l","e","m","e","n","t","a","r","y"," ","i","n","f","o","r","m","a","t","i","o","n">>, <<"d","a","t","a"," ","a","v","a","i","l","a","b","i","l","i","t","y">>, <<"a","p","p","e","n","d","i","x">>}

\* a section: its heading and the list of its text parts
Section(heading, text) == [heading |-> heading, text |-> text]

\* a str stored under "text": the concatenation loop appends its characters one
\* by one, which appends the string; it is held as the one part it amounts to
StrText(str) == IF str = <<>> THEN <<>> ELSE <<str>>

\* p_all: the children after the heading when the first child is a bare string
PAll(children) == IF IsNavigableString(children[1]) THEN Tail(children) ELSE children

\* what follows a paragraph: "\n\n" if p == p_all[-1], else "\n"
Terminator(p, p_all) == IF p = p_all[Len(p_all)] THEN <<"\n","\n">> ELSE <<"\n">>

\* text_parts after the loop over p_all
TextParts(p_all, refs) ==
    [i \in 1..Len(p_all) |-> reconstruct_paragraph(p_all[i], refs) \o Terminator(p_all[i], p_all)]

\* whether reconstruct_paragraph raises on one of the paragraphs
PartsRaise(p_all, refs) ==
    \E i \in 1..Len(p_all) : reconstruct_paragraph(p_all[i], refs) = AttributeError

\* whether handling a division of the abstract raises
AbstractRaises(div, refs) ==
    IF div.contents = <<>> THEN FALSE
    ELSE IF Len(div.contents) = 1
    THEN reconstruct_paragraph(div.contents[1], refs) = AttributeError
    ELSE PartsRaise(PAll(div.contents), refs)

\* heading = f"## {heading_text}\n"
AbstractHeading(children) ==
    IF IsNavigableString(children[1]) THEN <<"#","#"," ">> \o children[1].string \o <<"\n">> ELSE <<>>

\* the section a non-empty division of the abstract gives
AbstractSection(div, refs) ==
    IF Len(div.contents) = 1
    THEN Section(<<>>, StrText(reconstruct_paragraph(div.contents[1], refs) \o <<"\n","\n">>))
    ELSE Section(AbstractHeading(div.contents), TextParts(PAll(div.contents), refs))

\* whether handling a division of the body raises
BodyRaises(div, refs) ==
    Len(div.contents) > 1 /\ PartsRaise(PAll(div.contents), refs)

\* heading = f"# {heading_text}\n" if heading_text.strip().lower() in common_titles
\*           else f"## {heading_text}\n"
BodyHeading(children) ==
    IF IsNavigableString(children[1])
    THEN (IF lower(strip(children[1].string)) \in common_titles THEN <<"#"," ">> ELSE <<"#","#"," ">>)
         \o children[1].string \o <<"\n">>
    ELSE <<>>

\* the section a non-empty division of the body gives
BodySection(div, refs) ==
    IF Len(div.contents) = 1
    THEN IF IsNavigableString(div.contents[1])
         THEN Section(<<"#"," ">> \o div.contents[1].string \o <<"\n","\n">>, <<>>)
         ELSE Section(<<>>, StrText(reconstruct_paragraph(div.contents[1], refs)))
    ELSE Section(BodyHeading(div.contents), TextParts(PAll(div.contents), refs))

\* the test without .lower()
IsIrrelevant_CaseSensitive(section) ==
    \E x \in irrelevant_sections : Contains(strip(section.heading), strip(x))

\* any(x.strip() in section["heading"].strip().lower() for x in irrelevant_sections)
IsIrrelevant(section) ==
    \E x \in irrelevant_sections : Contains(lower(strip(section.heading)), strip(x))

\* the strings of a list, concatenated
RECURSIVE Join(_)
Join(parts) == IF parts = <<>> THEN <<>> ELSE Head(parts) \o Join(Tail(parts))

\* what a surviving section adds to article_text
SectionText(section) == section.heading \o Join(section.text)

(***************************************************************************)
(* Sample documents: a header with or without an abstract, and a text      *)
(* region with up to MaxDivs body divisions, with or without references.   *)
(***************************************************************************)
MaxDivs == 2

SectionDiv(children) == Tag("div", Attr("xmlns", Xmlns), children)

ParaFirst == Paragraph(<<NavigableString(<<"F","i","r","s","t">>), RefB1>>)
ParaSecond == Paragraph(<<NavigableString(<<"S","e","c","o","n","d",".">>)>>)

DivEmpty == SectionDiv(<<>>)
DivHeadingOnly == SectionDiv(<<NavigableString(<<"D","i","s","c","u","s","s","i","o","n">>)>>)
DivSinglePara == SectionDiv(<<ParaFirst>>)
DivResults == SectionDiv(<<NavigableString(<<"R","e","s","u","l","t","s">>), ParaFirst>>)
DivStatistical == SectionDiv(<<NavigableString(<<"S","t","a","t","i","s","t","i","c","a","l"," ","A","n","a","l","y","s","i","s">>), ParaFirst, ParaSecond>>)
DivAcknowledgements == SectionDiv(<<NavigableString(<<"A","c","k","n","o","w","l","e","d","g","e","m","e","n","t","s">>), ParaSecond>>)
DivRepeat == SectionDiv(<<ParaFirst, ParaSecond, ParaFirst>>)
DivMaterials == SectionDiv(<<NavigableString(<<"M","a","t","e","r","i","a","l","s"," ","a","n","d"," ","M","e","t","h","o","d","s">>), ParaSecond>>)
DivStray == SectionDiv(<<ParaFirst, NavigableString(<<" ">>)>>)
DivNested ==
    SectionDiv(<<NavigableString(<<"M","e","t","h","o","d","s">>),
                 SectionDiv(<<NavigableString(<<"S","a","m","p","l","i","n","g">>), ParaSecond>>)>>)

BodyDivPool ==
    {DivEmpty, DivHeadingOnly, DivSinglePara, DivResults, DivStatistical,
     DivAcknowledgements, DivRepeat, DivMaterials, DivStray, DivNested}

\* what the profile description holds: no abstract, or an abstract with its divisions
AbstractPool ==
    {<<>>,
     <<Tag("abstract", NoAttrs, <<>>)>>,
     <<Tag("abstract", NoAttrs, <<SectionDiv(<<ParaSecond>>)>>)>>,
     <<Tag("abstract", NoAttrs,
           <<DivEmpty, SectionDiv(<<NavigableString(<<"R","e","s","u","l","t","s">>), ParaFirst, ParaSecond>>)>>)>>,
     <<Tag("abstract", NoAttrs, <<SectionDiv(<<NavigableString(<<"S","u","m","m","a","r","y">>)>>)>>)>>}

BackPool == {<<>>, <<ReferencesDivOf(<<EntryB1>>)>>}

\* the text region: absent, or a body and a back matter
TextRegionPool ==
    {<<>>} \cup {<<TextRegion(ds, back)>> : ds \in SeqsUpTo(BodyDivPool, MaxDivs), back \in BackPool}

DocHeader(profile) ==
    TeiHeader(Attr("xml:lang", <<"e","n">>),
              <<Tag("titlestmt", NoAttrs,
                    <<Leaf("title", Attr2("level", <<"a">>, "type", Main), <<"A"," ","T","r","i","a","l">>)>>)>>,
              <<Tag("publicationstmt", NoAttrs, <<Leaf("publisher", NoAttrs, <<"E","l","s","e","v","i","e","r">>)>>)>>,
              <<Tag("monogr", NoAttrs, <<JournalTitle>>)>>,
              profile)

DocPool == {Soup(<<DocHeader(ab)>> \o tx) : ab \in AbstractPool, tx \in TextRegionPool}

(***************************************************************************)
(* SpecDoc: _parse_xml's call of parse_text, one division and one section  *)
(* a step, and the record or None it returns.                              *)
(***************************************************************************)
InitDoc ==
    /\ article \in DocPool
    /\ reference_dict = EmptyDict
    /\ referencecount = -1
    /\ sections = <<>>
    /\ divs = <<>>
    /\ didx = 0
    /\ sidx = 0
    /\ article_text = <<>>
    /\ record = NoRecord("")
    /\ dpc = "parse_references"
    /\ IdleWalk
    /\ IdleBuilder
    /\ IdleMeta
    /\ IdleApp

\* the division the loop is at
Div == divs[didx + 1]

\* reference_dict = parse_references(article); sections = []
DocParseReferences ==
    /\ dpc = "parse_references"
    /\ reference_dict' = parse_references(article)
    /\ sections' = <<>>
    /\ dpc' = "abstract"
    /\ UNCHANGED <<article, referencecount, divs, didx, sidx, article_text, record>>
    /\ UNCHANGED notDoc

\* abstract = article.find("abstract") is None: abstract.find_all raises
AbstractMissing ==
    /\ dpc = "abstract"
    /\ find(article, "abstract", {}) = NoNode
    /\ dpc' = "raised"
    /\ UNCHANGED <<article, reference_dict, referencecount, sections, divs, didx, sidx,
                   article_text, record>>
    /\ UNCHANGED notDoc

\* abstract_text = abstract.find_all("div", ...); if abstract_text: the "# Abstract" section
AbstractEnter ==
    /\ dpc = "abstract"
    /\ find(article, "abstract", {}) # NoNode
    /\ divs' = SectionDivs(find(article, "abstract", {}))
    /\ sections' = IF divs' # <<>> THEN Append(sections, Section(<<"#"," ","A","b","s","t","r","a","c","t","\n","\n">>, <<>>))
                   ELSE sections
    /\ didx' = 0
    /\ dpc' = "abstract_loop"
    /\ UNCHANGED <<article, reference_dict, referencecount, sidx, article_text, record>>
    /\ UNCHANGED notDoc

\* a division of the abstract without children: continue
AbstractSkip ==
    /\ dpc = "abstract_loop" /\ didx < Len(divs)
    /\ Div.contents = <<>>
    /\ didx' = didx + 1
    /\ UNCHANGED <<article, reference_dict, referencecount, sections, divs, sidx,
                   article_text, record, dpc>>
    /\ UNCHANGED notDoc

\* a division of the abstract with one child
AbstractSingle ==
    /\ dpc = "abstract_loop" /\ didx < Len(divs)
    /\ Len(Div.contents) = 1 /\ ~AbstractRaises(Div, reference_dict)
    /\ sections' = Append(sections, AbstractSection(Div, reference_dict))
    /\ didx' = didx + 1
    /\ UNCHANGED <<article, reference_dict, referencecount, divs, sidx, article_text,
                   record, dpc>>
    /\ UNCHANGED notDoc

\* a division of the abstract with several children
AbstractMulti ==
    /\ dpc = "abstract_loop" /\ didx < Len(divs)
    /\ Len(Div.contents) > 1 /\ ~AbstractRaises(Div, reference_dict)
    /\ sections' = Append(sections, AbstractSection(Div, reference_dict))
    /\ didx' = didx + 1
    /\ UNCHANGED <<article, reference_dict, referencecount, divs, sidx, article_text,
                   record, dpc>>
    /\ UNCHANGED notDoc

\* a division of the abstract on which reconstruct_paragraph raises
AbstractRaise ==
    /\ dpc = "abstract_loop" /\ didx < Len(divs)
    /\ AbstractRaises(Div, reference_dict)
    /\ dpc' = "raised"
    /\ UNCHANGED <<article, reference_dict, referencecount, sections, divs, didx, sidx,
                   article_text, record>>
    /\ UNCHANGED notDoc

\* article_text = article.find("text") is None: article_text.find_all raises
BodyMissing ==
    /\ dpc = "abstract_loop" /\ didx = Len(divs)
    /\ find(article, "text", {}) = NoNode
    /\ dpc' = "raised"
    /\ UNCHANGED <<article, reference_dict, referencecount, sections, divs, didx, sidx,
                   article_text, record>>
    /\ UNCHANGED notDoc

\* divs = article_text.find_all("div", ...)
BodyEnter ==
    /\ dpc = "abstract_loop" /\ didx = Len(divs)
    /\ find(article, "text", {}) # NoNode
    /\ divs' = SectionDivs(find(article, "text", {}))
    /\ didx' = 0
    /\ dpc' = "body_loop"
    /\ UNCHANGED <<article, reference_dict, referencecount, sections, sidx, article_text,
                   record>>
    /\ UNCHANGED notDoc

\* a division of the body without children: continue
BodySkip ==
    /\ dpc = "body_loop" /\ didx < Len(divs)
    /\ Div.contents = <<>>
    /\ didx' = didx + 1
    /\ UNCHANGED <<article, reference_dict, referencecount, sections, divs, sidx,
                   article_text, record, dpc>>
    /\ UNCHANGED notDoc

\* a division of the body whose one child is a bare string
BodyHeadingOnly ==
    /\ dpc = "body_loop" /\ didx < Len(divs)
    /\ Len(Div.contents) = 1 /\ IsNavigableString(Div.contents[1])
    /\ sections' = Append(sections, BodySection(Div, reference_dict))
    /\ didx' = didx + 1
    /\ UNCHANGED <<article, reference_dict, referencecount, divs, sidx, article_text,
                   record, dpc>>
    /\ UNCHANGED notDoc

\* a division of the body whose one child is no bare string
BodySingle ==
    /\ dpc = "body_loop" /\ didx < Len(divs)
    /\ Len(Div.contents) = 1 /\ ~IsNavigableString(Div.contents[1])
    /\ sections' = Append(sections, BodySection(Div, reference_dict))
    /\ didx' = didx + 1
    /\ UNCHANGED <<article, reference_dict, referencecount, divs, sidx, article_text,
                   record, dpc>>
    /\ UNCHANGED notDoc

\* a division of the body with several children
BodyMulti ==
    /\ dpc = "body_loop" /\ didx < Len(divs)
    /\ Len(Div.contents) > 1 /\ ~BodyRaises(Div, reference_dict)
    /\ sections' = Append(sections, BodySection(Div, reference_dict))
    /\ didx' = didx + 1
    /\ UNCHANGED <<article, reference_dict, referencecount, divs, sidx, article_text,
                   record, dpc>>
    /\ UNCHANGED notDoc

\* a division of the body on which reconstruct_paragraph raises
BodyRaise ==
    /\ dpc = "body_loop" /\ didx < Len(divs)
    /\ BodyRaises(Div, reference_dict)
    /\ dpc' = "raised"
    /\ UNCHANGED <<article, reference_dict, referencecount, sections, divs, didx, sidx,
                   article_text, record>>
    /\ UNCHANGED notDoc

\* article_text = ""; for section in sections
ConcatEnter ==
    /\ dpc = "body_loop" /\ didx = Len(divs)
    /\ article_text' = <<>>
    /\ sidx' = 0
    /\ dpc' = "concat"
    /\ UNCHANGED <<article, reference_dict, referencecount, sections, divs, didx, record>>
    /\ UNCHANGED notDoc

\* a section whose heading holds an irrelevant term: continue
ConcatDrop ==
    /\ dpc = "concat" /\ sidx < Len(sections)
    /\ IsIrrelevant(sections[sidx + 1])
    /\ sidx' = sidx + 1
    /\ UNCHANGED <<article, reference_dict, referencecount, sections, divs, didx,
                   article_text, record, dpc>>
    /\ UNCHANGED notDoc

\* a surviving section: its heading, then its text parts
ConcatAppend ==
    /\ dpc = "concat" /\ sidx < Len(sections)
    /\ ~IsIrrelevant(sections[sidx + 1])
    /\ article_text' = article_text \o SectionText(sections[sidx + 1])
    /\ sidx' = sidx + 1
    /\ UNCHANGED <<article, reference_dict, referencecount, sections, divs, didx, record,
                   dpc>>
    /\ UNCHANGED notDoc

\* return len(reference_dict), article_text
ReturnText ==
    /\ dpc = "concat" /\ sidx = Len(sections)
    /\ referencecount' = Len(reference_dict)
    /\ dpc' = "returned"
    /\ UNCHANGED <<article, reference_dict, sections, divs, didx, sidx, article_text,
                   record>>
    /\ UNCHANGED notDoc

\* _parse_xml: return {...}
ReturnRecord ==
    /\ dpc = "returned"
    /\ record' = [returned |-> "dict", title |-> parse_title(article),
                  language |-> parse_language(article),
                  publisher |-> parse_publisher(article)[1],
                  journal |-> parse_publisher(article)[2],
                  release_year |-> parse_year(article), doi |-> parse_doi(article),
                  referencecount |-> referencecount, text |-> article_text]
    /\ dpc' = "done"
    /\ UNCHANGED <<article, reference_dict, referencecount, sections, divs, didx, sidx,
                   article_text>>
    /\ UNCHANGED notDoc

\* _parse_xml: except Exception: return None
ReturnNone ==
    /\ dpc = "raised"
    /\ record' = NoRecord("None")
    /\ dpc' = "done"
    /\ UNCHANGED <<article, reference_dict, referencecount, sections, divs, didx, sidx,
                   article_text>>
    /\ UNCHANGED notDoc

NextDoc ==
    \/ DocParseReferences
    \/ AbstractMissing
    \/ AbstractEnter
    \/ AbstractSkip
    \/ AbstractSingle
    \/ AbstractMulti
    \/ AbstractRaise
    \/ BodyMissing
    \/ BodyEnter
    \/ BodySkip
    \/ BodyHeadingOnly
    \/ BodySingle
    \/ BodyMulti
    \/ BodyRaise
    \/ ConcatEnter
    \/ ConcatDrop
    \/ ConcatAppend
    \/ ReturnText
    \/ ReturnRecord
    \/ ReturnNone

SpecDoc == InitDoc /\ [][NextDoc]_vars

(***************************************************************************)
(* Claims about parse_text and _parse_xml                                  *)
(***************************************************************************)
\* whether a region the conversion reads is missing from the document
RegionMissing(art) ==
    \/ find(art, "abstract", {}) = NoNode
    \/ find(art, "text", {}) = NoNode
    \/ ReferencesDiv(art) = NoNode

\* whether a division holds a bare string where a paragraph is expected, on which
\* reconstruct_paragraph raises
MalformedDivision(art) ==
    \/ \E i \in 1..Len(SectionDivs(find(art, "abstract", {}))) :
          AbstractRaises(SectionDivs(find(art, "abstract", {}))[i], parse_references(art))
    \/ \E i \in 1..Len(SectionDivs(find(art, "text", {}))) :
          BodyRaises(SectionDivs(find(art, "text", {}))[i], parse_references(art))

\* C5 as stated: a document with the abstract, the text region or the references
\* division missing (and no malformed division) is converted to a record, never
\* to None.
C5_MissingRegionStillGivesRecord ==
    (dpc = "done" /\ RegionMissing(article) /\ ~MalformedDivision(article))
        => record.returned = "dict"

\* the boilerplate terms as the specification lists them
BoilerplateTerms ==
    {<<"a","c","k","n","o","w","l","e","d","g","e","m","e","n","t">>, <<"c","o","n","f","l","i","c","t"," ","o","f"," ","i","n","t","e","r","e","s","t">>, <<"f","u","n","d","i","n","g">>, <<"a","u","t","h","o","r"," ","c","o","n","t","r","i","b","u","t","i","o","n">>,
     <<"c","o","m","p","e","t","i","n","g"," ","i","n","t","e","r","e","s","t","s">>, <<"s","u","p","p","l","e","m","e","n","t","a","r","y"," ","m","a","t","e","r","i","a","l">>, <<"s","u","p","p","l","e","m","e","n","t","a","r","y"," ","i","n","f","o","r","m","a","t","i","o","n">>,
     <<"a","d","d","i","t","i","o","n","a","l"," ","i","n","f","o","r","m","a","t","i","o","n">>, <<"d","a","t","a"," ","a","v","a","i","l","a","b","i","l","i","t","y">>, <<"a","p","p","e","n","d","i","x">>}

\* whether a heading, compared case-insensitively, contains a boilerplate term
IsBoilerplate(heading) == \E t \in BoilerplateTerms : Contains(lower(heading), t)

\* the sections in order, each whole unless its heading is boilerplate
RECURSIVE KeptText(_)
KeptText(ss) ==
    IF ss = <<>> THEN <<>>
    ELSE (IF IsBoilerplate(Head(ss).heading) THEN <<>>
          ELSE Head(ss).heading \o Join(Head(ss).text)) \o KeptText(Tail(ss))

HeadingAcknowledgements == <<"#","#"," ","A","c","k","n","o","w","l","e","d","g","e","m","e","n","t","s","\n">>
HeadingStatistical == <<"#","#"," ","S","t","a","t","i","s","t","i","c","a","l"," ","A","n","a","l","y","s","i","s","\n">>

HasHeading(h) == \E i \in 1..Len(sections) : sections[i].heading = h

\* C7: the returned text is the sections in order, each with its heading and all
\* its paragraphs, without exactly those whose heading contains, in any letter
\* case, a boilerplate term: "## Acknowledgements\n" is absent,
\* "## Statistical Analysis\n" is present, a section without heading is kept.
C7_BoilerplateSectionsDropped ==
    dpc = "returned" =>
        /\ article_text = KeptText(sections)
        /\ HasHeading(HeadingAcknowledgements) => ~Contains(article_text, HeadingAcknowledgements)
        /\ HasHeading(HeadingStatistical) => Contains(article_text, HeadingStatistical)
        /\ \A i \in 1..Len(sections) :
              sections[i].heading = <<>> => Contains(article_text, Join(sections[i].text))

C7_Witness ==
    /\ dpc = "returned"
    /\ HasHeading(HeadingAcknowledgements)
    /\ HasHeading(HeadingStatistical)
    /\ \E i \in 1..Len(sections) : sections[i].heading = <<>> /\ sections[i].text # <<>>
    /\ ~Contains(article_text, HeadingAcknowledgements)
    /\ Contains(article_text, HeadingStatistical)

\* the division the loop has just handled
Handled == divs[didx]

\* a heading text without its whitespace, in lower case
RECURSIVE Squeeze(_)
Squeeze(str) ==
    IF str = <<>> THEN <<>>
    ELSE (IF IsSpace(Head(str)) THEN <<>> ELSE <<LowerChar(Head(str))>>) \o Squeeze(Tail(str))

\* the canonical section names, under either spelling of materials-and-methods
CanonicalNames ==
    {<<"a","b","s","t","r","a","c","t">>, <<"i","n","t","r","o","d","u","c","t","i","o","n">>, <<"m","a","t","e","r","i","a","l","s","a","n","d","m","e","t","h","o","d","s">>, <<"m","a","t","e","r","i","a","l","a","n","d","m","e","t","h","o","d","s">>,
     <<"m","e","t","h","o","d","s">>, <<"r","e","s","u","l","t","s">>, <<"d","i","s","c","u","s","s","i","o","n">>, <<"c","o","n","c","l","u","s","i","o","n">>}

\* the heading the claim expects for a heading text
ExpectedHeading(text) ==
    (IF Squeeze(text) \in CanonicalNames THEN <<"#"," ">> ELSE <<"#","#"," ">>) \o text \o <<"\n">>

\* C8 as stated: a division with several children whose first child is a bare
\* string, in the abstract as in the body, gets the heading "# text\n" when its
\* text, ignoring letter case and whitespace, is a canonical section name, and
\* "## text\n" otherwise.
C8_HeadingLevel ==
    (/\ dpc \in {"abstract_loop", "body_loop"}
     /\ didx > 0
     /\ Len(Handled.contents) > 1
     /\ IsNavigableString(Handled.contents[1]))
        => sections[Len(sections)].heading = ExpectedHeading(Handled.contents[1].string)

\* the paragraphs of a division: its children after a leading bare string
ParagraphsOf(div) ==
    IF Len(div.contents) > 1 THEN PAll(div.contents)
    ELSE IF IsNavigableString(div.contents[1]) THEN <<>> ELSE div.contents

\* the paragraphs' strings, the last followed by "\n\n", the others by "\n"
TerminatedByPosition(ps, refs) ==
    Join([i \in 1..Len(ps) |->
            reconstruct_paragraph(ps[i], refs) \o (IF i = Len(ps) THEN <<"\n","\n">> ELSE <<"\n">>)])

\* C10 as stated: the section emitted for a division with paragraphs holds each
\* paragraph followed by "\n", and the last one, by position, by "\n\n"; also
\* when an interior paragraph equals the last one, and when there is one paragraph.
C10_TerminatorsByPosition ==
    (/\ dpc \in {"abstract_loop", "body_loop"}
     /\ didx > 0
     /\ Handled.contents # <<>>
     /\ ParagraphsOf(Handled) # <<>>)
        => Join(sections[Len(sections)].text) = TerminatedByPosition(ParagraphsOf(Handled), reference_dict)

(***************************************************************************)
(* Further claims about reconstruct_paragraph (checked under SpecPara).    *)
(***************************************************************************)
\* the walk is about to handle a child
AtChild == ppc = "walk" /\ idx < Len(paragraph.contents)

\* the state the walk is in after handling the child it is at
AfterChild == StepElement(WalkState, Element, reference_dict)

\* the caption lead-in words
LeadInWords == {<<"f","i","g","u","r","e">>, <<"f","i","g",".">>, <<"f","i","g">>, <<"t","a","b","l","e">>}

\* a caption lead-in with its surrounding whitespace, optionally preceded by "("
IsLeadIn(str) ==
    LET t == lower(strip(str))
    IN  t \in LeadInWords \/ (t # <<>> /\ Head(t) = "(" /\ Tail(t) \in LeadInWords)

\* C11 as stated: a figure/table marker emits nothing and removes at most a
\* caption lead-in standing at the very end of the accumulated text; the text
\* before it, earlier occurrences of those words included, stays, and the flag
\* becomes true.
C11_OnlyTrailingLeadInRemoved ==
    (AtChild /\ IsMarkerBranch(Element, reference_dict)) =>
        /\ AfterChild.switch = TRUE
        /\ startswith(paragraph_content, AfterChild.content)
        /\ \/ AfterChild.content = paragraph_content
           \/ IsLeadIn(From(paragraph_content, Len(AfterChild.content) + 1))

\* C12: a text child is appended (after the removal of "supplementary"
\* annotations) without its first character when the flag is true and the text
\* begins with ")" or " ", and whole otherwise; the flag is false afterwards, so
\* a text child that follows a text child is appended whole.
C12_LeadingCharacterDrop ==
    (AtChild /\ IsNavigableString(Element)) =>
        LET text == Element.string
            drop == switch /\ text # <<>> /\ (Head(text) = ")" \/ Head(text) = " ")
        IN  /\ AfterChild.content
                  = paragraph_content \o SuppSub(IF drop THEN Tail(text) ELSE text, 1)
            /\ AfterChild.switch = FALSE
            /\ (idx > 0 /\ IsNavigableString(paragraph.contents[idx])) => ~drop

C12_Witness ==
    /\ ppc = "walk"
    /\ paragraph.contents = <<FigRef, TxtSupp, TxtConfirms>>
    /\ idx = 3
    /\ paragraph_content = <<" ","x"," ","c","o","n","f","i","r","m","s"," ","t","h","i","s",".">>
    /\ switch = FALSE

\* a citation marker whose derived id is in the table
IsResolved(e, refs) == IsCitationMarker(e) /\ DictHas(refs, TargetId(e))

\* the citation string of a resolved marker
Citation(e, refs) ==
    <<"[","b","i","b","_","r","e","f","]"," ">> \o DictGet(refs, TargetId(e)).title \o <<","," ">>
        \o DictGet(refs, TargetId(e)).author \o <<" ","[","/","b","i","b","_","r","e","f","]">>

\* the citation strings of the resolved markers among the children, one space
\* between one and the next
RECURSIVE CitationRun(_, _, _)
CitationRun(children, refs, first) ==
    IF children = <<>> THEN <<>>
    ELSE IF IsResolved(Head(children), refs)
    THEN (IF first THEN <<>> ELSE <<" ">>) \o Citation(Head(children), refs)
         \o CitationRun(Tail(children), refs, FALSE)
    ELSE CitationRun(Tail(children), refs, first)

\* C13: a citation marker whose id is in the (non-empty) table appends
\* "[bib_ref] title, author [/bib_ref]" of its entry, after one space when the
\* accumulated text ends with "[/bib_ref]", and sets the flag; a paragraph made
\* of citation markers only returns its resolved citations one space apart.
C13_ResolvedCitationEmitted ==
    /\ (AtChild /\ IsResolved(Element, reference_dict)) =>
          /\ AfterChild.switch = TRUE
          /\ AfterChild.content =
                paragraph_content
                \o (IF endswith(paragraph_content, <<"[","/","b","i","b","_","r","e","f","]">>) THEN <<" ">> ELSE <<>>)
                \o Citation(Element, reference_dict)
    /\ (/\ ppc = "done"
        /\ reference_dict # EmptyDict
        /\ \A i \in 1..Len(paragraph.contents) : IsCitationMarker(paragraph.contents[i]))
          => para_result = CitationRun(paragraph.contents, reference_dict, TRUE)

C13_Witness ==
    /\ ppc = "done"
    /\ reference_dict = TableTwo
    /\ paragraph.contents = <<RefB1, RefB9, RefB2>>
    /\ para_result =
          <<"[","b","i","b","_","r","e","f","]"," ","A"," ","S","t","u","d","y",","," ","S","m","i","t","h"," ","J"," ","[","/","b","i","b","_","r","e","f","]"," ","[","b","i","b","_","r","e","f","]"," ","S","u","p","p","l","e","m","e","n","t","a","r","y"," ","N","o","t","e","s",","," ","L","e","e"," ","K"," ","[","/","b","i","b","_","r","e","f","]">>

(***************************************************************************)
(* Further claims about parse_text (checked under SpecDoc).                *)
(***************************************************************************)
\* the section appended last
LastSection == sections[Len(sections)]

\* C14 as stated: a division with one child, in the abstract as in the body,
\* gives a heading-only section when the child is a bare string and a section
\* with an empty heading and the reconstructed child otherwise; and no division
\* with at most one child makes the conversion fail.
C14_SingleChildSections ==
    /\ (dpc \in {"abstract_loop", "body_loop"} /\ didx > 0 /\ Len(Handled.contents) = 1) =>
          IF IsNavigableString(Handled.contents[1])
          THEN /\ Contains(LastSection.heading, Handled.contents[1].string)
               /\ LastSection.text = <<>>
          ELSE /\ LastSection.heading = <<>>
               /\ startswith(Join(LastSection.text),
                             reconstruct_paragraph(Handled.contents[1], reference_dict))
    /\ (dpc = "raised" /\ didx < Len(divs)) => Len(Div.contents) > 1

\* the section elements of the abstract and of the text region, in document order
AbstractDivs == SectionDivs(find(article, "abstract", {}))
BodyDivs == SectionDivs(find(article, "text", {}))

NonEmpty(ds) == SelectSeq(ds, LAMBDA d : d.contents # <<>>)

\* one section for each section element with children, the abstract's first,
\* under "# Abstract"
SectionsInOrder ==
    (IF AbstractDivs # <<>> THEN <<Section(<<"#"," ","A","b","s","t","r","a","c","t","\n","\n">>, <<>>)>> ELSE <<>>)
    \o [i \in 1..Len(NonEmpty(AbstractDivs)) |->
            AbstractSection(NonEmpty(AbstractDivs)[i], reference_dict)]
    \o [i \in 1..Len(NonEmpty(BodyDivs)) |->
            BodySection(NonEmpty(BodyDivs)[i], reference_dict)]

\* a section element that is also handled as a paragraph of another section
\* element, and contributes text there
EmittedAsParagraph(d) ==
    \E i \in 1..Len(AbstractDivs \o BodyDivs) :
        LET outer == (AbstractDivs \o BodyDivs)[i]
        IN  /\ outer.contents # <<>>
            /\ \E k \in 1..Len(ParagraphsOf(outer)) : ParagraphsOf(outer)[k] = d
            /\ reconstruct_paragraph(d, reference_dict) # <<>>

\* C15 as stated: the returned text is the surviving sections in document
\* order, the abstract's (under "# Abstract") before the body's, each with its
\* heading and then its paragraphs; and every section element contributes at
\* most once: none that gives a section is also emitted inside another section.
C15_InOrderAndOnce ==
    dpc = "returned" =>
        /\ sections = SectionsInOrder
        /\ article_text = KeptText(sections)
        /\ \A i \in 1..Len(AbstractDivs \o BodyDivs) :
              (AbstractDivs \o BodyDivs)[i].contents # <<>>
                  => ~EmittedAsParagraph((AbstractDivs \o BodyDivs)[i])

(***************************************************************************)
(* The flag of reconstruct_paragraph (checked under SpecPara).             *)
(***************************************************************************)
\* an element without a type attribute, or with an empty one
IsUntyped(e) == IsTag(e) /\ ~Truthy(Get(e, "type"))

\* what the most recent of the first k children says the flag is, elements
\* without type and unresolved citation markers passed over: true for an element
\* (a resolved citation, a figure/table marker), false for text or no child
RECURSIVE FlagAfter(_, _, _)
FlagAfter(children, refs, k) ==
    IF k = 0 THEN FALSE
    ELSE IF IsUntyped(children[k]) \/ IsUnresolved(children[k], refs)
    THEN FlagAfter(children, refs, k - 1)
    ELSE IsTag(children[k])

\* C17 as stated: an element without type leaves the accumulated text and the
\* flag as they are, and at every point of the walk the flag is true exactly
\* when the most recent child that is neither such an element nor an unresolved
\* citation marker was a resolved citation or a figure/table marker.
C17_FlagTracksLastMarker ==
    /\ (AtChild /\ IsUntyped(Element)) => AfterChild = WalkState
    /\ ppc = "walk" => (switch <=> FlagAfter(paragraph.contents, reference_dict, idx))

(***************************************************************************)
(* SpecApp: the upload handler (mainpage, POST) and GrobidParser.parse_pdf *)
(* for several requests at once, on the files of STATIC_FOLDER.            *)
(***************************************************************************)
MaxRequests == 2
MaxTime == 1

Requests == 1..MaxRequests

\* the documents uploaded; the markup of the last one makes _parse_xml return None
Uploads == {"paper_a", "paper_b", "no_abstract"}

\* f"{currentTime}.pdf" and f"{currentTime}.grobid.tei.xml", for each second
FileNames == (0..MaxTime) \X {"pdf", "grobid.tei.xml"}

Absent == [kind |-> "absent", of |-> ""]

\* the uploaded file as saved
Pdf(doc) == [kind |-> "pdf", of |-> doc]

\* the markup the service answers for a PDF file
Tei(pdf) == [kind |-> "tei", of |-> pdf.of]

\* os.path.exists
Exists(name) == static_folder[name] # Absent

NoResult == [returned |-> "", of |-> ""]

\* _parse_xml on a markup file: a dict built from that markup, or None
parse_xml(tei) ==
    IF tei.of = "no_abstract" THEN [returned |-> "None", of |-> ""]
    ELSE [returned |-> "dict", of |-> tei.of]

PdfName(r) == <<handler[r].currentTime, "pdf">>
XmlName(r) == <<handler[r].currentTime, "grobid.tei.xml">>

InitApp ==
    /\ clock = 0
    /\ static_folder = [n \in FileNames |-> Absent]
    /\ \E f \in [Requests -> Uploads] :
          /\ \A q, r \in Requests : q # r => f[q] # f[r]
          /\ handler = [r \in Requests |->
                          [apc |-> "idle", file |-> f[r], currentTime |-> -1,
                           response |-> Absent, parsed |-> "", result |-> NoResult]]
    /\ paragraph = NoNode
    /\ reference_dict = EmptyDict
    /\ article = NoNode
    /\ referencecount = -1
    /\ idx = 0
    /\ paragraph_content = <<>>
    /\ switch = FALSE
    /\ para_result = None
    /\ ppc = "idle"
    /\ IdleBuilder
    /\ IdleMeta
    /\ IdleDoc

\* time passes
Tick ==
    /\ clock < MaxTime
    /\ clock' = clock + 1
    /\ UNCHANGED <<static_folder, handler>>
    /\ UNCHANGED <<paraVars, refVars, metaVars, docVars>>

\* GET with Cache-Control: max-age=0: every file of the folder is removed
ClearCache ==
    /\ \E n \in FileNames : Exists(n)
    /\ static_folder' = [n \in FileNames |-> Absent]
    /\ UNCHANGED <<clock, handler>>
    /\ UNCHANGED <<paraVars, refVars, metaVars, docVars>>

\* currentTime = now.strftime(...); file.save(filepath)
SaveUpload(r) ==
    /\ handler[r].apc = "idle"
    /\ static_folder' = [static_folder EXCEPT ![<<clock, "pdf">>] = Pdf(handler[r].file)]
    /\ handler' = [handler EXCEPT ![r].currentTime = clock, ![r].apc = "process"]
    /\ UNCHANGED clock
    /\ UNCHANGED <<paraVars, refVars, metaVars, docVars>>

\* _process_pdf: if os.path.exists(xml_path): return xml_path
ProcessExisting(r) ==
    /\ handler[r].apc = "process"
    /\ Exists(XmlName(r))
    /\ handler' = [handler EXCEPT ![r].apc = "parse"]
    /\ UNCHANGED <<clock, static_folder>>
    /\ UNCHANGED <<paraVars, refVars, metaVars, docVars>>

\* _process_pdf: the markup file does not exist yet
ProcessMissing(r) ==
    /\ handler[r].apc = "process"
    /\ ~Exists(XmlName(r))
    /\ handler' = [handler EXCEPT ![r].apc = "post"]
    /\ UNCHANGED <<clock, static_folder>>
    /\ UNCHANGED <<paraVars, refVars, metaVars, docVars>>

\* response = requests.post(url, files=[open(pdf)]).text
PostGrobid(r) ==
    /\ handler[r].apc = "post"
    /\ Exists(PdfName(r))
    /\ handler' = [handler EXCEPT ![r].response = Tei(static_folder[PdfName(r)]),
                                  ![r].apc = "write"]
    /\ UNCHANGED <<clock, static_folder>>
    /\ UNCHANGED <<paraVars, refVars, metaVars, docVars>>

\* open or requests.post raises: _process_pdf and parse_pdf return None
GrobidFails(r) ==
    /\ handler[r].apc = "post"
    /\ handler' = [handler EXCEPT ![r].result = [returned |-> "None", of |-> ""],
                                  ![r].apc = "failed"]
    /\ UNCHANGED <<clock, static_folder>>
    /\ UNCHANGED <<paraVars, refVars, metaVars, docVars>>

\* with open(xml_path, 'w') as fp: fp.write(response); return xml_path
WriteXml(r) ==
    /\ handler[r].apc = "write"
    /\ static_folder' = [static_folder EXCEPT ![XmlName(r)] = handler[r].response]
    /\ handler' = [handler EXCEPT ![r].apc = "parse"]
    /\ UNCHANGED clock
    /\ UNCHANGED <<paraVars, refVars, metaVars, docVars>>

\* parse_pdf: if xml_path and os.path.exists(xml_path): return self._parse_xml(xml_path)
ParseXml(r) ==
    /\ handler[r].apc = "parse"
    /\ Exists(XmlName(r))
    /\ handler' = [handler EXCEPT
                      ![r].parsed = static_folder[XmlName(r)].of,
                      ![r].result = parse_xml(static_folder[XmlName(r)]),
                      ![r].apc = IF parse_xml(static_folder[XmlName(r)]).returned = "dict"
                                 THEN "export" ELSE "failed"]
    /\ UNCHANGED <<clock, static_folder>>
    /\ UNCHANGED <<paraVars, refVars, metaVars, docVars>>

\* parse_pdf: the markup file is gone: return None
ParseNothing(r) ==
    /\ handler[r].apc = "parse"
    /\ ~Exists(XmlName(r))
    /\ handler' = [handler EXCEPT ![r].result = [returned |-> "None", of |-> ""],
                                  ![r].apc = "failed"]
    /\ UNCHANGED <<clock, static_folder>>
    /\ UNCHANGED <<paraVars, refVars, metaVars, docVars>>

\* the results are exported; os.remove(filepath); os.remove(... .grobid.tei.xml)
Export(r) ==
    /\ handler[r].apc = "export"
    /\ Exists(PdfName(r)) /\ Exists(XmlName(r))
    /\ static_folder' = [static_folder EXCEPT ![PdfName(r)] = Absent, ![XmlName(r)] = Absent]
    /\ handler' = [handler EXCEPT ![r].apc = "done"]
    /\ UNCHANGED clock
    /\ UNCHANGED <<paraVars, refVars, metaVars, docVars>>

\* the export or a removal raises: the request ends in an error, the files stay
ExportRaises(r) ==
    /\ handler[r].apc = "export"
    /\ handler' = [handler EXCEPT ![r].apc = "error"]
    /\ UNCHANGED <<clock, static_folder>>
    /\ UNCHANGED <<paraVars, refVars, metaVars, docVars>>

NextApp ==
    \/ Tick
    \/ ClearCache
    \/ \E r \in Requests : SaveUpload(r)
    \/ \E r \in Requests : ProcessExisting(r)
    \/ \E r \in Requests : ProcessMissing(r)
    \/ \E r \in Requests : PostGrobid(r)
    \/ \E r \in Requests : GrobidFails(r)
    \/ \E r \in Requests : WriteXml(r)
    \/ \E r \in Requests : ParseXml(r)
    \/ \E r \in Requests : ParseNothing(r)
    \/ \E r \in Requests : Export(r)
    \/ \E r \in Requests : ExportRaises(r)

SpecApp == InitApp /\ [][NextApp]_vars

\* C16 as stated: whatever the interleaving of the requests (two uploads within
\* the same second, a request after a failed one), the markup a request's
\* conversion reads, and the record it returns, are of the document it uploaded.
C16_ConversionsIndependent ==
    \A r \in Requests :
        /\ handler[r].parsed # "" => handler[r].parsed = handler[r].file
        /\ handler[r].result.returned = "dict" => handler[r].result.of = handler[r].file

====
